---- MODULE Spec2Model ----
(***************************************************************************)
(* Model of the documentation scraper: the example extractor and the link  *)
(* extractors of DOCAPIscraper.py / scrapApi.py, the render operations and *)
(* the batch loop of batch_scraper.py.                                     *)
(*                                                                         *)
(* A parsed document is a sequence of element nodes in document order      *)
(* (pre-order).  Node 0 is the BeautifulSoup object itself ("[document]"), *)
(* the parent of the top-level elements.  A node carries its tag name, its *)
(* parent, the text it directly holds (placed before its children), its    *)
(* href attribute and its class list.  A string is a sequence of tokens:   *)
(* whitespace characters and atomic non-whitespace tokens.                 *)
(***************************************************************************)
EXTENDS Integers, Sequences, FiniteSets, TLC

VARIABLES
    doc,        \* the parsed document (soup / self.dom)
    base_url,   \* the url handed to _absolute_links
    phase,      \* position of the running operation
    idx,        \* number of loop iterations done (code tags / anchors)
    examples,   \* _extract_examples: the list being built
    links,      \* _absolute_links / extract_links: the list being built
    seen,       \* _absolute_links / extract_links: the seen set
    texts,      \* _collect_description_between: the collected text blocks
    desc,       \* _collect_description_between: the returned description
    renderer,   \* which render operation runs, and its post_render_delay_ms
    pending,    \* the urls still to be scraped (the `for url in links` loop)
    rpc,        \* position of the running render / scrape
    pw,         \* the async_playwright() context
    browser,    \* the browser process of the running render
    page_dom,   \* the content-ready markers the page holds right now
    html,       \* the snapshot taken by page.content()
    events,     \* what the running render has gone through
    renders,    \* the renders that have ended: url, result, snapshot
    parsed,     \* the documents handed to BeautifulSoup by scrape_page
    results,    \* the PageExtraction list of scrape_links_async
    payload,    \* the link input of the batch: the JSON file or the iterable
    call,       \* the running batch call: its entry point and its base_url
    bpc,        \* position of the running batch call
    usable,     \* the links that came out of the normalization
    written,    \* the output file of scrape_links_to_json
    walk_node,  \* _closest_section_heading: `node`, whose siblings are walked
    walk_curr   \* _closest_section_heading: `curr`, the position of the walk

evars == <<doc, base_url, phase, idx, examples, links, seen, texts, desc>>
rvars == <<renderer, pending, rpc, pw, browser, page_dom, html, events,
           renders, parsed, results>>
bvars == <<payload, call, bpc, usable, written>>
hvars == <<walk_node, walk_curr>>
vars == <<evars, rvars, bvars, hvars>>

-----------------------------------------------------------------------------
(* Bounds of the model                                                     *)

MaxNodes == 4
MaxProseNodes == 5
MaxTexts == 4
MaxAnchors == 3
MaxSidebarNodes == 4
MaxLinks == 2

-----------------------------------------------------------------------------
(* Strings                                                                 *)

Whitespace == {" ", "\n"}

IsWs(c) == c \in Whitespace

NoneNode == -1

RECURSIVE LStrip(_)
LStrip(s) ==
    IF s = <<>> THEN <<>>
    ELSE IF IsWs(Head(s)) THEN LStrip(Tail(s)) ELSE s

RECURSIVE RStrip(_)
RStrip(s) ==
    IF s = <<>> THEN <<>>
    ELSE IF IsWs(s[Len(s)]) THEN RStrip(SubSeq(s, 1, Len(s) - 1)) ELSE s

\* str.strip()
Strip(s) == RStrip(LStrip(s))

\* str.split(): the maximal runs of non-whitespace tokens, in order
RECURSIVE SplitFrom(_, _)
SplitFrom(s, word) ==
    IF s = <<>> THEN (IF word = <<>> THEN <<>> ELSE <<word>>)
    ELSE IF IsWs(Head(s))
         THEN (IF word = <<>> THEN <<>> ELSE <<word>>) \o SplitFrom(Tail(s), <<>>)
         ELSE SplitFrom(Tail(s), Append(word, Head(s)))

Split(s) == SplitFrom(s, <<>>)

\* sep.join(parts)
RECURSIVE Join(_, _)
Join(sep, parts) ==
    IF parts = <<>> THEN <<>>
    ELSE IF Len(parts) = 1 THEN parts[1]
    ELSE parts[1] \o sep \o Join(sep, Tail(parts))

\* _clean_text: " ".join(s.split())
CleanText(s) == Join(<<" ">>, Split(s))

-----------------------------------------------------------------------------
(* The document tree (bs4)                                                 *)

Nodes(d) == 1..Len(d)

RECURSIVE Ancestors(_, _)
Ancestors(d, n) ==
    IF n = 0 THEN {} ELSE {d[n].parent} \cup Ancestors(d, d[n].parent)

\* Tag.descendants, element nodes only
Descendants(d, n) == {m \in Nodes(d) : n \in Ancestors(d, m)}

Children(d, n) == {m \in Nodes(d) : d[m].parent = n}

TagOf(d, n) == IF n = 0 THEN "[document]" ELSE d[n].tag

\* the elements of a set of nodes, in document order
RECURSIVE InOrder(_)
InOrder(S) ==
    IF S = {} THEN <<>>
    ELSE LET m == CHOOSE x \in S : \A y \in S : x <= y
         IN  <<m>> \o InOrder(S \ {m})

Reverse(s) == [i \in 1..Len(s) |-> s[Len(s) + 1 - i]]

\* the strings of the subtree of n, in document order
SubtreeStrings(d, n) ==
    LET ns == InOrder({n} \cup Descendants(d, n))
    IN  [i \in 1..Len(ns) |-> d[ns[i]].text]

RECURSIVE Concat(_)
Concat(ss) == IF ss = <<>> THEN <<>> ELSE Head(ss) \o Concat(Tail(ss))

\* Tag.get_text(): the strings of the subtree, concatenated verbatim
GetText(d, n) == Concat(SubtreeStrings(d, n))

RECURSIVE StrippedNonEmpty(_)
StrippedNonEmpty(ss) ==
    IF ss = <<>> THEN <<>>
    ELSE LET s == Strip(Head(ss))
         IN  (IF s = <<>> THEN <<>> ELSE <<s>>) \o StrippedNonEmpty(Tail(ss))

\* Tag.get_text(sep, strip=True): each string stripped, empty ones dropped,
\* joined with sep
GetTextStripSep(d, n, sep) == Join(sep, StrippedNonEmpty(SubtreeStrings(d, n)))

\* Tag.get_text(" ", strip=True)
GetTextStrip(d, n) == GetTextStripSep(d, n, <<" ">>)

\* Tag.find_previous_sibling(): the nearest preceding sibling element
FindPreviousSibling(d, n) ==
    IF n = 0 THEN NoneNode
    ELSE LET S == {m \in Nodes(d) : m < n /\ d[m].parent = d[n].parent}
         IN  IF S = {} THEN NoneNode ELSE CHOOSE m \in S : \A k \in S : k <= m

\* Tag.next_siblings, element nodes only
NextSiblings(d, n) ==
    InOrder({m \in Nodes(d) : m > n /\ d[m].parent = d[n].parent})

\* Tag.find_all_previous(): every element that starts before n, nearest first
\* (the ancestors of n are among them)
FindAllPrevious(d, n) == Reverse(InOrder({m \in Nodes(d) : m < n}))

\* Tag.__eq__: same name, same attributes, same contents, recursively
RECURSIVE StructEq(_, _, _)
StructEq(d, a, b) ==
    \/ a = b
    \/ /\ d[a].tag = d[b].tag
       /\ d[a].href = d[b].href
       /\ d[a].cls = d[b].cls
       /\ d[a].text = d[b].text
       /\ LET ca == InOrder(Children(d, a))
              cb == InOrder(Children(d, b))
          IN  /\ Len(ca) = Len(cb)
              /\ \A i \in 1..Len(ca) : StructEq(d, ca[i], cb[i])

\* `x in tag.descendants`
InDescendants(d, x, n) == \E m \in Descendants(d, n) : StructEq(d, m, x)

\* variant: "pre > code", the code elements that are children of a pre
SelectPreCodeChildOnly(d) ==
    InOrder({n \in Nodes(d) : d[n].tag = "code" /\ TagOf(d, d[n].parent) = "pre"})

\* soup.select("pre code"): the code elements below a pre, in document order
SelectPreCode(d) ==
    InOrder({n \in Nodes(d) :
                /\ d[n].tag = "code"
                /\ \E a \in Ancestors(d, n) : TagOf(d, a) = "pre"})

\* soup.select("a[href]"): the anchors that carry an href attribute
SelectAHref(d) == InOrder({n \in Nodes(d) : d[n].tag = "a" /\ d[n].href # <<"(no href)">>})

\* soup.select_one("h1")
SelectOneH1(d) ==
    LET S == {n \in Nodes(d) : d[n].tag = "h1"}
    IN  IF S = {} THEN NoneNode ELSE CHOOSE n \in S : \A m \in S : n <= m

\* Tag.find_all(names) below n, in document order
FindAll(d, n, names) == InOrder({m \in Descendants(d, n) : d[m].tag \in names})

\* Tag.find("code") is not None
FindCode(d, n) == \E m \in Descendants(d, n) : d[m].tag = "code"

-----------------------------------------------------------------------------
(* urllib.parse, on strings whose tokens are a scheme with its colon, "//", *)
(* a host, "/", a path segment, "#" and fragment text (no query, no params) *)

SchemeTokens == {"https:", "mailto:", "tel:"}
UsesRelative == {"https:", ""}
UsesNetloc == {"https:", ""}

\* the tokens before / after the first occurrence of token c
RECURSIVE Before(_, _)
Before(s, c) ==
    IF s = <<>> \/ Head(s) = c THEN <<>> ELSE <<Head(s)>> \o Before(Tail(s), c)

RECURSIVE After(_, _)
After(s, c) ==
    IF s = <<>> THEN <<>> ELSE IF Head(s) = c THEN Tail(s) ELSE After(Tail(s), c)

\* urlsplit(url, default_scheme)
UrlSplit(url, default_scheme) ==
    LET hasScheme == url # <<>> /\ Head(url) \in SchemeTokens
        rest1 == IF hasScheme THEN Tail(url) ELSE url
        hasNetloc == rest1 # <<>> /\ Head(rest1) = "//"
        afterSlashes == IF hasNetloc THEN Tail(rest1) ELSE rest1
        netloc == IF hasNetloc /\ afterSlashes # <<>> /\ Head(afterSlashes) \notin {"/", "#"}
                  THEN Head(afterSlashes) ELSE ""
        rest2 == IF netloc # "" THEN Tail(afterSlashes) ELSE afterSlashes
    IN  [scheme |-> IF hasScheme THEN Head(url) ELSE default_scheme,
         netloc |-> netloc,
         path |-> Before(rest2, "#"),
         fragment |-> After(rest2, "#")]

\* urlunsplit / geturl
UrlUnsplit(u) ==
    LET rooted == IF (u.netloc # "" \/ u.scheme \in UsesNetloc \ {""})
                     /\ u.path # <<>> /\ Head(u.path) # "/"
                  THEN <<"/">> \o u.path ELSE u.path
        withNetloc == IF u.netloc # "" \/ u.scheme \in UsesNetloc \ {""}
                      THEN <<"//">> \o (IF u.netloc # "" THEN <<u.netloc>> ELSE <<>>) \o rooted
                      ELSE u.path
    IN  (IF u.scheme # "" THEN <<u.scheme>> ELSE <<>>)
        \o withNetloc
        \o (IF u.fragment # <<>> THEN <<"#">> \o u.fragment ELSE <<>>)

\* path.split('/'): the segments between the slashes, "" for an empty one
RECURSIVE SegmentsFrom(_, _)
SegmentsFrom(path, seg) ==
    IF path = <<>> THEN <<seg>>
    ELSE IF Head(path) = "/" THEN <<seg>> \o SegmentsFrom(Tail(path), "")
    ELSE SegmentsFrom(Tail(path), Head(path))

PathSplit(path) == SegmentsFrom(path, "")

\* '/'.join(segments)
RECURSIVE PathJoin(_)
PathJoin(segs) ==
    IF segs = <<>> THEN <<>>
    ELSE (IF Head(segs) = "" THEN <<>> ELSE <<Head(segs)>>)
         \o (IF Len(segs) > 1 THEN <<"/">> \o PathJoin(Tail(segs)) ELSE <<>>)

\* the loop of urljoin over the segments: ".." pops, "." is skipped
RECURSIVE ResolveSegments(_, _)
ResolveSegments(segs, resolved) ==
    IF segs = <<>> THEN resolved
    ELSE IF Head(segs) = ".."
         THEN ResolveSegments(Tail(segs),
                  IF resolved = <<>> THEN <<>> ELSE SubSeq(resolved, 1, Len(resolved) - 1))
    ELSE IF Head(segs) = "." THEN ResolveSegments(Tail(segs), resolved)
    ELSE ResolveSegments(Tail(segs), Append(resolved, Head(segs)))

\* segments[1:-1] = filter(None, segments[1:-1])
DropInnerEmpty(segs) ==
    IF Len(segs) <= 2 THEN segs
    ELSE <<segs[1]>>
         \o SelectSeq(SubSeq(segs, 2, Len(segs) - 1), LAMBDA x : x # "")
         \o <<segs[Len(segs)]>>

\* urljoin(base, url)
UrlJoin(base, url) ==
    IF base = <<>> THEN url
    ELSE IF url = <<>> THEN base
    ELSE
    LET b == UrlSplit(base, "")
        u == UrlSplit(url, b.scheme)
    IN  IF u.scheme # b.scheme \/ u.scheme \notin UsesRelative THEN url
        ELSE IF u.scheme \in UsesNetloc /\ u.netloc # "" THEN UrlUnsplit(u)
        ELSE IF u.path = <<>>
             THEN UrlUnsplit([u EXCEPT !.netloc = b.netloc, !.path = b.path])
        ELSE LET bsplit == PathSplit(b.path)
                 base_parts == IF bsplit[Len(bsplit)] # ""
                               THEN SubSeq(bsplit, 1, Len(bsplit) - 1) ELSE bsplit
                 segments == DropInnerEmpty(
                                IF Head(u.path) = "/" THEN PathSplit(u.path)
                                ELSE base_parts \o PathSplit(u.path))
                 tail == IF segments[Len(segments)] \in {".", ".."} THEN <<"">> ELSE <<>>
                 joined == PathJoin(ResolveSegments(segments, <<>>) \o tail)
             IN  UrlUnsplit([u EXCEPT !.netloc = b.netloc,
                                      !.path = IF joined = <<>> THEN <<"/">> ELSE joined])

\* variant: the url is returned as resolved, fragment and all
KeepFragment(abs_url) == abs_url

\* lines 69-70: urlparse(abs_url)._replace(fragment="").geturl()
Defrag(abs_url) == UrlUnsplit([UrlSplit(abs_url, "") EXCEPT !.fragment = <<>>])

-----------------------------------------------------------------------------
(* SPASidebarExtractor                                                     *)

\* variant: the first div of the document, whatever its classes
FirstDiv(d) ==
    LET S == {n \in Nodes(d) : d[n].tag = "div"}
    IN  IF S = {} THEN NoneNode ELSE CHOOSE n \in S : \A m \in S : n <= m

\* _sidebar_container: dom.find("div", class_="os-padding")
SidebarContainer(d) ==
    LET S == {n \in Nodes(d) :
                 d[n].tag = "div" /\ \E i \in 1..Len(d[n].cls) : d[n].cls[i] = <<"os-padding">>}
    IN  IF S = {} THEN NoneNode ELSE CHOOSE n \in S : \A m \in S : n <= m

\* container.find_all("a", href=True)
SidebarAnchors(d, container) ==
    InOrder({n \in Descendants(d, container) : d[n].tag = "a" /\ d[n].href # <<"(no href)">>})

-----------------------------------------------------------------------------
(* SPAPlaywrightScraper: the example extractor                             *)

HeadingTags == {"h2", "h3"}
ProseTags == {"p", "ul", "ol"}
WrapperTags == {"div", "section", "article"}
BoundaryTags == {"main", "article"}

\* _closest_section_heading: the state of the loop is (node, curr); one
\* unfolding is one pass through the body of `while curr:`
RECURSIVE HeadingLoop(_, _, _)
HeadingLoop(d, node, curr) ==
    LET prev == FindPreviousSibling(d, curr)
    IN  IF prev # NoneNode /\ TagOf(d, prev) \in HeadingTags THEN prev
        ELSE IF prev = NoneNode /\ node # 0
             THEN HeadingLoop(d, d[node].parent, d[node].parent)
        ELSE IF prev = NoneNode THEN NoneNode
        ELSE HeadingLoop(d, node, prev)

\* variant: the walk never leaves the siblings of the start node
RECURSIVE SiblingsOnlyLoop(_, _)
SiblingsOnlyLoop(d, curr) ==
    LET prev == FindPreviousSibling(d, curr)
    IN  IF prev = NoneNode THEN NoneNode
        ELSE IF TagOf(d, prev) \in HeadingTags THEN prev
        ELSE SiblingsOnlyLoop(d, prev)

ClosestSectionHeadingSiblingsOnly(d, node) == SiblingsOnlyLoop(d, node)

ClosestSectionHeading(d, node) == HeadingLoop(d, node, node)

\* the inner loop of case 1: the p/ul/ol below a wrapper, up to the first one
\* that holds a code element
RECURSIVE WrapperLoop(_, _)
WrapperLoop(d, subs) ==
    IF subs = <<>> THEN <<>>
    ELSE IF FindCode(d, Head(subs)) THEN <<>>
    ELSE <<Head(subs)>> \o WrapperLoop(d, Tail(subs))

\* case 1 of _collect_description_between: the nodes whose text is collected
\* while walking the siblings that follow the heading
RECURSIVE HeadingBranch(_, _, _)
HeadingBranch(d, sibs, end_code_block) ==
    IF sibs = <<>> THEN <<>>
    ELSE LET sib == Head(sibs)
         IN  IF sib = end_code_block \/ InDescendants(d, end_code_block, sib)
             THEN <<>>
             ELSE (IF d[sib].tag \in ProseTags THEN <<sib>> ELSE <<>>)
                  \o (IF d[sib].tag \in WrapperTags
                      THEN WrapperLoop(d, FindAll(d, sib, ProseTags))
                      ELSE <<>>)
                  \o HeadingBranch(d, Tail(sibs), end_code_block)

\* case 2: the nodes whose text is collected while walking backward from the
\* code block, nearest first
RECURSIVE NoHeadingBranch(_, _)
NoHeadingBranch(d, prevs) ==
    IF prevs = <<>> THEN <<>>
    ELSE LET prev == Head(prevs)
         IN  (IF d[prev].tag \in ProseTags THEN <<prev>> ELSE <<>>)
             \o (IF d[prev].tag \in HeadingTags \/ d[prev].tag \in BoundaryTags
                 THEN <<>>
                 ELSE NoHeadingBranch(d, Tail(prevs)))

\* the nodes behind `texts`, in the order of `texts` at line 126
CollectedNodes(d, start_heading, end_code_block) ==
    IF start_heading # NoneNode
    THEN HeadingBranch(d, NextSiblings(d, start_heading), end_code_block)
    ELSE Reverse(NoHeadingBranch(d, FindAllPrevious(d, end_code_block)))

CollectedTexts(d, start_heading, end_code_block) ==
    LET ns == CollectedNodes(d, start_heading, end_code_block)
    IN  [i \in 1..Len(ns) |-> CleanText(GetTextStrip(d, ns[i]))]

\* the list comprehension of line 127
RECURSIVE KeepFrom(_, _)
KeepFrom(ts, i) ==
    IF i > Len(ts) THEN <<>>
    ELSE (IF ts[i] # <<>> /\ (i = 1 \/ ts[i] # ts[i - 1]) THEN <<ts[i]>> ELSE <<>>)
         \o KeepFrom(ts, i + 1)

BlankLine == <<"\n", "\n">>

\* lines 126-128: drop, join with a blank line, strip
JoinDescription(ts) == Strip(Join(BlankLine, KeepFrom(ts, 1)))

CollectDescriptionBetween(d, start_heading, end_code_block) ==
    JoinDescription(CollectedTexts(d, start_heading, end_code_block))

\* _language_from_code: a class is a sequence of tokens; "language-" is one
RECURSIVE UpToPrefix(_)
UpToPrefix(c) ==
    IF c = <<>> \/ Head(c) = "language-" THEN <<>>
    ELSE <<Head(c)>> \o UpToPrefix(Tail(c))

RECURSIVE LanguageOf(_)
LanguageOf(classes) ==
    IF classes = <<>> THEN <<"text">>
    ELSE LET c == Head(classes)
         IN  IF c # <<>> /\ Head(c) = "language-" THEN UpToPrefix(Tail(c))
             ELSE LanguageOf(Tail(classes))

LanguageFromCode(d, code) == LanguageOf(d[code].cls)

\* line 151-152: the <pre> wrapper when it is the parent, else the code node
BlockOf(d, code) ==
    IF d[code].parent # 0 /\ d[d[code].parent].tag = "pre" THEN d[code].parent
    ELSE code

\* lines 146-147
PageTitleH1(d) ==
    IF SelectOneH1(d) # NoneNode THEN GetTextStrip(d, SelectOneH1(d)) ELSE <<>>

\* lines 155-159
TitleFor(d, heading) ==
    IF heading # NoneNode THEN CleanText(GetTextStrip(d, heading))
    ELSE IF PageTitleH1(d) # <<>> THEN PageTitleH1(d) ELSE <<"Example">>

\* the body of the loop of _extract_examples for one code tag
ExampleOf(d, code) ==
    LET block == BlockOf(d, code)
        heading == ClosestSectionHeading(d, block)
    IN  [title |-> TitleFor(d, heading),
         description |-> CollectDescriptionBetween(d, heading, block),
         language |-> LanguageFromCode(d, code),
         code |-> GetText(d, code)]

-----------------------------------------------------------------------------
(* Documents the extractors are run on                                     *)

NoHref == <<"(no href)">>

Elem(tag, text) == [tag |-> tag, text |-> text, href |-> NoHref, cls |-> <<>>]

NoHtml == [taken |-> FALSE, markers |-> {}]

\* no render is running and none has run
NoRender ==
    /\ renderer = [op |-> "none", post_render_delay_ms |-> 0]
    /\ pending = <<>>
    /\ rpc = "off"
    /\ pw = "none"
    /\ browser = "none"
    /\ page_dom = {}
    /\ html = NoHtml
    /\ events = {}
    /\ renders = <<>>
    /\ parsed = <<>>
    /\ results = <<>>

\* a value that is absent or None
Missing == <<"(None)">>

\* no output file
NoFile == [exists |-> FALSE, pages |-> <<>>]

\* no batch call is running
NoBatch ==
    /\ payload = [top |-> "none", member |-> "absent", items |-> <<>>]
    /\ call = [entry |-> "none", base_url |-> <<>>]
    /\ bpc = "off"
    /\ usable = <<>>
    /\ written = NoFile

\* no heading search is running
NoSearch ==
    /\ walk_node = NoneNode
    /\ walk_curr = NoneNode

\* the nodes that may take the next element: the last node and its ancestors
\* (document order), among those whose tag holds child elements
OpenNodes(d, containers) ==
    {p \in (IF d = <<>> THEN {0} ELSE {Len(d)} \cup Ancestors(d, Len(d))) :
        p = 0 \/ d[p].tag \in containers}

\* a pre holds code, directly or inside one more element
Fits(d, p, k) == (p # 0 /\ d[p].tag = "pre") => k.tag \in {"code", "div"}

\* BeautifulSoup(html, parser) builds the tree element by element: the next
\* element of the markup, of one of `kinds`, placed under an open node
ParseElement(kinds, containers, bound) ==
    /\ phase = "parse"
    /\ Len(doc) < bound
    /\ \E k \in kinds, p \in OpenNodes(doc, containers) :
          /\ Fits(doc, p, k)
          /\ doc' = Append(doc, [tag |-> k.tag, parent |-> p, text |-> k.text,
                              href |-> k.href, cls |-> k.cls])

\* headings of every level, plain containers and code blocks
ExampleKinds ==
    { Elem("h1", <<>>), Elem("h1", <<"P", " ", " ", "Q">>),
      Elem("h2", <<" ", "A", " ", " ", "B">>), Elem("h3", <<"C">>),
      Elem("div", <<>>), Elem("pre", <<>>),
      Elem("code", <<" ">>),
      [tag |-> "code", text |-> <<" ", "x">>, href |-> NoHref,
       cls |-> << <<"hljs">>, <<"language-", "python">> >>] }

ExampleContainers == {"div", "pre"}

\* a section heading, prose, lists, wrappers and code blocks
ProseKinds ==
    { Elem("h2", <<"A">>),
      Elem("p", <<"d1">>), Elem("p", <<" ", "d", " ", " ", "2">>),
      Elem("ul", <<>>), Elem("div", <<>>), Elem("article", <<>>),
      Elem("pre", <<>>), Elem("code", <<"x">>) }

ProseContainers == {"ul", "div", "article", "pre"}

-----------------------------------------------------------------------------
(* _extract_examples as a process: one step per code tag                   *)

InitExamples ==
    /\ doc = <<>>
    /\ base_url = <<>>
    /\ phase = "parse"
    /\ idx = 0
    /\ examples = <<>>
    /\ links = <<>>
    /\ seen = {}
    /\ texts = <<>>
    /\ desc = <<>>
    /\ NoRender
    /\ NoBatch
    /\ NoSearch

\* line 187, for a page of headings, containers and code blocks
ParseExamplePage ==
    /\ ParseElement(ExampleKinds, ExampleContainers, MaxNodes)
    /\ UNCHANGED <<base_url, phase, idx, examples, links, seen, texts, desc>>
    /\ UNCHANGED rvars
    /\ UNCHANGED <<bvars, hvars>>

\* line 191: _extract_examples is entered with the parsed document
ExtractEnter ==
    /\ phase = "parse"
    /\ phase' = "extract"
    /\ UNCHANGED <<doc, base_url, idx, examples, links, seen, texts, desc>>
    /\ UNCHANGED rvars
    /\ UNCHANGED <<bvars, hvars>>

\* lines 149-174: one pass through the loop body
ExtractStep ==
    /\ phase = "extract"
    /\ idx < Len(SelectPreCode(doc))
    /\ LET code == SelectPreCode(doc)[idx + 1]
           ex == ExampleOf(doc, code)
       IN  examples' = IF Strip(ex.code) # <<>> THEN Append(examples, ex)
                       ELSE examples
    /\ idx' = idx + 1
    /\ UNCHANGED <<doc, base_url, phase, links, seen, texts, desc>>
    /\ UNCHANGED rvars
    /\ UNCHANGED <<bvars, hvars>>

\* line 175
ExtractReturn ==
    /\ phase = "extract"
    /\ idx = Len(SelectPreCode(doc))
    /\ phase' = "done"
    /\ UNCHANGED <<doc, base_url, idx, examples, links, seen, texts, desc>>
    /\ UNCHANGED rvars
    /\ UNCHANGED <<bvars, hvars>>

\* line 187, for a page of prose around code blocks
ParseProsePage ==
    /\ ParseElement(ProseKinds, ProseContainers, MaxProseNodes)
    /\ UNCHANGED <<base_url, phase, idx, examples, links, seen, texts, desc>>
    /\ UNCHANGED rvars
    /\ UNCHANGED <<bvars, hvars>>

NextProse == ParseProsePage \/ ExtractEnter \/ ExtractStep \/ ExtractReturn

SpecProse == InitExamples /\ [][NextProse]_vars

-----------------------------------------------------------------------------
(* _collect_description_between on its own: the text blocks are collected  *)
(* one by one (lines 106, 113, 118), then joined (lines 126-128)           *)

\* what _clean_text can return for a p/ul/ol
CleanBlocks == { <<>>, <<"a">>, <<"a", " ", "b">> }

InitDescription ==
    /\ doc = <<>>
    /\ base_url = <<>>
    /\ phase = "collect"
    /\ idx = 0
    /\ examples = <<>>
    /\ links = <<>>
    /\ seen = {}
    /\ texts = <<>>
    /\ desc = <<>>
    /\ NoRender
    /\ NoBatch
    /\ NoSearch

CollectText ==
    /\ phase = "collect"
    /\ Len(texts) < MaxTexts
    /\ \E t \in CleanBlocks : texts' = Append(texts, t)
    /\ UNCHANGED <<doc, base_url, phase, idx, examples, links, seen, desc>>
    /\ UNCHANGED rvars
    /\ UNCHANGED <<bvars, hvars>>

JoinTexts ==
    /\ phase = "collect"
    /\ desc' = JoinDescription(texts)
    /\ phase' = "done"
    /\ UNCHANGED <<doc, base_url, idx, examples, links, seen, texts>>
    /\ UNCHANGED rvars
    /\ UNCHANGED <<bvars, hvars>>

NextDescription == CollectText \/ JoinTexts

SpecDescription == InitDescription /\ [][NextDescription]_vars

-----------------------------------------------------------------------------
(* _absolute_links as a process: one step per anchor                       *)

Anchor(href, text) == [tag |-> "a", text |-> text, href |-> href, cls |-> <<>>]

LinkHrefs ==
    { <<>>, <<"#", "f">>, <<"mailto:", "m">>, <<"tel:", "1">>,
      <<"b">>, <<"b", "#", "f">>, <<"..", "/", "b">>,
      <<"https:", "//", "x.com", "/", "docs", "/", "b", "#", "g">>,
      <<"//", "y.com", "/", "p">> }

LinkKinds == {Anchor(h, <<"t">>) : h \in LinkHrefs \cup {NoHref}} \cup {Elem("div", <<>>)}

BaseUrls ==
    { <<"https:", "//", "x.com", "/", "docs", "/", "a">>,
      <<"https:", "//", "y.com", "/">> }

InitLinks ==
    /\ doc = <<>>
    /\ base_url \in BaseUrls
    /\ phase = "parse"
    /\ idx = 0
    /\ examples = <<>>
    /\ links = <<>>
    /\ seen = {}
    /\ texts = <<>>
    /\ desc = <<>>
    /\ NoRender
    /\ NoBatch
    /\ NoSearch

\* line 187, for a page of anchors
ParseLinkPage ==
    /\ ParseElement(LinkKinds, {}, MaxAnchors)
    /\ UNCHANGED <<base_url, phase, idx, examples, links, seen, texts, desc>>
    /\ UNCHANGED rvars
    /\ UNCHANGED <<bvars, hvars>>

\* line 190: _absolute_links is entered with the parsed document
LinksEnter ==
    /\ phase = "parse"
    /\ phase' = "links"
    /\ UNCHANGED <<doc, base_url, idx, examples, links, seen, texts, desc>>
    /\ UNCHANGED rvars
    /\ UNCHANGED <<bvars, hvars>>

\* lines 60-73: one pass through the loop body
LinkStep ==
    /\ phase = "links"
    /\ idx < Len(SelectAHref(doc))
    /\ LET href == doc[SelectAHref(doc)[idx + 1]].href
           abs_url == Defrag(UrlJoin(base_url, href))
       IN  IF href = <<>> \/ Head(href) \in {"#", "mailto:", "tel:"} \/ abs_url \in seen
           THEN UNCHANGED <<links, seen>>
           ELSE /\ seen' = seen \cup {abs_url}
                /\ links' = Append(links, abs_url)
    /\ idx' = idx + 1
    /\ UNCHANGED <<doc, base_url, phase, examples, texts, desc>>
    /\ UNCHANGED rvars
    /\ UNCHANGED <<bvars, hvars>>

\* line 74
LinksReturn ==
    /\ phase = "links"
    /\ idx = Len(SelectAHref(doc))
    /\ phase' = "done"
    /\ UNCHANGED <<doc, base_url, idx, examples, links, seen, texts, desc>>
    /\ UNCHANGED rvars
    /\ UNCHANGED <<bvars, hvars>>

NextLinks == ParseLinkPage \/ LinksEnter \/ LinkStep \/ LinksReturn

SpecLinks == InitLinks /\ [][NextLinks]_vars

-----------------------------------------------------------------------------
(* SPASidebarExtractor.extract_links as a process: one step per anchor     *)

SidebarKinds ==
    { [tag |-> "div", text |-> <<>>, href |-> NoHref,
       cls |-> << <<"menu">>, <<"os-padding">> >>],
      Elem("div", <<>>),
      Anchor(NoHref, <<"T">>),
      Anchor(<<" ">>, <<"T">>),
      Anchor(<<"/", "a">>, <<"T">>),
      Anchor(<<" ", "/", "a">>, <<"T">>),
      Anchor(<<"/", "a">>, <<" ", "U">>) }

InitSidebar ==
    /\ doc = <<>>
    /\ base_url = <<>>
    /\ phase = "parse"
    /\ idx = 0
    /\ examples = <<>>
    /\ links = <<>>
    /\ seen = {}
    /\ texts = <<>>
    /\ desc = <<>>
    /\ NoRender
    /\ NoBatch
    /\ NoSearch

\* scrapApi.py line 136, for a page with or without a sidebar
ParseSidebarPage ==
    /\ ParseElement(SidebarKinds, {"div"}, MaxSidebarNodes)
    /\ UNCHANGED <<base_url, phase, idx, examples, links, seen, texts, desc>>
    /\ UNCHANGED rvars
    /\ UNCHANGED <<bvars, hvars>>

\* scrapApi.py lines 144-149: without a container the empty list is returned
SidebarEnter ==
    /\ phase = "parse"
    /\ phase' = IF SidebarContainer(doc) = NoneNode THEN "done" ELSE "sidebar"
    /\ UNCHANGED <<doc, base_url, idx, examples, links, seen, texts, desc>>
    /\ UNCHANGED rvars
    /\ UNCHANGED <<bvars, hvars>>

\* scrapApi.py lines 150-159: one pass through the loop body
SidebarStep ==
    /\ phase = "sidebar"
    /\ idx < Len(SidebarAnchors(doc, SidebarContainer(doc)))
    /\ LET anchor == SidebarAnchors(doc, SidebarContainer(doc))[idx + 1]
           href == Strip(doc[anchor].href)
           title == GetTextStripSep(doc, anchor, <<>>)
           key == <<href, title>>
       IN  IF href = <<>> \/ key \in seen
           THEN UNCHANGED <<links, seen>>
           ELSE /\ seen' = seen \cup {key}
                /\ links' = Append(links, [title |-> title, href |-> href])
    /\ idx' = idx + 1
    /\ UNCHANGED <<doc, base_url, phase, examples, texts, desc>>
    /\ UNCHANGED rvars
    /\ UNCHANGED <<bvars, hvars>>

\* scrapApi.py line 160
SidebarReturn ==
    /\ phase = "sidebar"
    /\ idx = Len(SidebarAnchors(doc, SidebarContainer(doc)))
    /\ phase' = "done"
    /\ UNCHANGED <<doc, base_url, idx, examples, links, seen, texts, desc>>
    /\ UNCHANGED rvars
    /\ UNCHANGED <<bvars, hvars>>

NextSidebar == ParseSidebarPage \/ SidebarEnter \/ SidebarStep \/ SidebarReturn

SpecSidebar == InitSidebar /\ [][NextSidebar]_vars

-----------------------------------------------------------------------------
(* The render operations and the batch loop.  scrape_links_async renders   *)
(* and scrapes its urls one after the other with _fetch_rendered_html;     *)
(* render_to_memory renders one url with SPADOMRenderer._render.  The page *)
(* is the environment: it gains its content-ready markers while the render *)
(* waits, or never does.                                                   *)

Urls == {"u1", "u2"}

UrlLists == UNION { [1..n -> Urls] : n \in 0..MaxLinks }

InitRender ==
    /\ doc = <<>>
    /\ base_url = <<>>
    /\ phase = "off"
    /\ idx = 0
    /\ examples = <<>>
    /\ links = <<>>
    /\ seen = {}
    /\ texts = <<>>
    /\ desc = <<>>
    /\ \/ /\ renderer = [op |-> "fetch", post_render_delay_ms |-> 0]
          /\ pending \in UrlLists
       \/ /\ renderer \in {[op |-> "render", post_render_delay_ms |-> ms] : ms \in {0, 250}}
          /\ pending \in [1..1 -> Urls]
    /\ rpc = "idle"
    /\ pw = "none"
    /\ browser = "none"
    /\ page_dom = {}
    /\ html = NoHtml
    /\ events = {}
    /\ renders = <<>>
    /\ parsed = <<>>
    /\ results = <<>>
    /\ NoBatch
    /\ NoSearch

\* batch_scraper.py lines 85-86 / scrapApi.py line 82: the next url is taken
\* and its render is called
StartRender ==
    /\ rpc = "idle"
    /\ pending # <<>>
    /\ rpc' = "with"
    /\ pw' = "none"
    /\ browser' = "none"
    /\ page_dom' = {}
    /\ html' = NoHtml
    /\ events' = {}
    /\ UNCHANGED <<renderer, pending, renders, parsed, results>>
    /\ UNCHANGED evars
    /\ UNCHANGED <<bvars, hvars>>

\* `async with async_playwright() as p:` is entered (line 42 / line 57)
PlaywrightEnter ==
    /\ rpc = "with"
    /\ pw' = "started"
    /\ rpc' = "launch"
    /\ UNCHANGED <<renderer, pending, browser, page_dom, html, events, renders, parsed, results>>
    /\ UNCHANGED evars
    /\ UNCHANGED <<bvars, hvars>>

\* p.chromium.launch (line 43 / line 58)
Launch ==
    /\ rpc = "launch"
    /\ \/ /\ browser' = "open"
          /\ events' = events \cup {"launched"}
          /\ rpc' = "new_page"
       \/ /\ events' = events \cup {"launch_failed"}
          /\ rpc' = "exit_exc"
          /\ UNCHANGED browser
    /\ UNCHANGED <<renderer, pending, pw, page_dom, html, renders, parsed, results>>
    /\ UNCHANGED evars
    /\ UNCHANGED <<bvars, hvars>>

\* browser.new_page (line 44 / line 59)
NewPage ==
    /\ rpc = "new_page"
    /\ rpc' = "goto"
    /\ UNCHANGED <<renderer, pending, pw, browser, page_dom, html, events, renders, parsed, results>>
    /\ UNCHANGED evars
    /\ UNCHANGED <<bvars, hvars>>

\* page.goto(url, wait_until="domcontentloaded", timeout=timeout_ms)
\* (line 46 / line 60): it returns, fails to navigate, or times out
Goto ==
    /\ rpc = "goto"
    /\ \/ /\ events' = events \cup {"goto_ok"}
          /\ rpc' = IF renderer.op = "fetch" THEN "wait_selector" ELSE "wait_load"
       \/ /\ \E e \in {"goto_failed", "goto_timeout"} : events' = events \cup {e}
          /\ rpc' = "exit_exc"
    /\ UNCHANGED <<renderer, pending, pw, browser, page_dom, html, renders, parsed, results>>
    /\ UNCHANGED evars
    /\ UNCHANGED <<bvars, hvars>>

\* the page hydrates: a code block or the main container shows up in the DOM
Hydrate ==
    /\ rpc \in {"wait_selector", "wait_fallback", "wait_load", "wait_delay", "content"}
    /\ \E m \in {"code", "container"} \ page_dom : page_dom' = page_dom \cup {m}
    /\ UNCHANGED <<renderer, pending, rpc, pw, browser, html, events, renders, parsed, results>>
    /\ UNCHANGED evars
    /\ UNCHANGED <<bvars, hvars>>

\* lines 48-50: page.wait_for_selector(self.selector_wait, timeout=30_000);
\* its timeout is caught and leads to the fallback wait
WaitSelector ==
    /\ rpc = "wait_selector"
    /\ \/ /\ "code" \in page_dom
          /\ events' = events \cup {"selector_found"}
          /\ rpc' = "content"
       \/ /\ "code" \notin page_dom
          /\ events' = events \cup {"selector_timeout"}
          /\ rpc' = "wait_fallback"
    /\ UNCHANGED <<renderer, pending, pw, browser, page_dom, html, renders, parsed, results>>
    /\ UNCHANGED evars
    /\ UNCHANGED <<bvars, hvars>>

\* variant: the timeout of the fallback wait is swallowed too
WaitFallbackLenient ==
    /\ rpc = "wait_fallback"
    /\ \/ /\ "container" \in page_dom
          /\ events' = events \cup {"fallback_found"}
       \/ /\ "container" \notin page_dom
          /\ events' = events \cup {"fallback_timeout"}
    /\ rpc' = "content"
    /\ UNCHANGED <<renderer, pending, pw, browser, page_dom, html, renders, parsed, results>>
    /\ UNCHANGED evars
    /\ UNCHANGED <<bvars, hvars>>

\* lines 50-52: page.wait_for_selector("div.theme-doc-markdown, main, article",
\* timeout=20_000) inside the except clause; its timeout is not caught
WaitFallback ==
    /\ rpc = "wait_fallback"
    /\ \/ /\ "container" \in page_dom
          /\ events' = events \cup {"fallback_found"}
          /\ rpc' = "content"
       \/ /\ "container" \notin page_dom
          /\ events' = events \cup {"fallback_timeout"}
          /\ rpc' = "exit_exc"
    /\ UNCHANGED <<renderer, pending, pw, browser, page_dom, html, renders, parsed, results>>
    /\ UNCHANGED evars
    /\ UNCHANGED <<bvars, hvars>>

\* scrapApi.py line 63: page.wait_for_load_state("networkidle")
WaitLoadState ==
    /\ rpc = "wait_load"
    /\ \/ /\ events' = events \cup {"network_idle"}
          /\ rpc' = IF renderer.post_render_delay_ms # 0 THEN "wait_delay" ELSE "content"
       \/ /\ events' = events \cup {"load_timeout"}
          /\ rpc' = "exit_exc"
    /\ UNCHANGED <<renderer, pending, pw, browser, page_dom, html, renders, parsed, results>>
    /\ UNCHANGED evars
    /\ UNCHANGED <<bvars, hvars>>

\* scrapApi.py lines 64-65: page.wait_for_timeout(self.post_render_delay_ms)
WaitDelay ==
    /\ rpc = "wait_delay"
    /\ events' = events \cup {"delayed"}
    /\ rpc' = "content"
    /\ UNCHANGED <<renderer, pending, pw, browser, page_dom, html, renders, parsed, results>>
    /\ UNCHANGED evars
    /\ UNCHANGED <<bvars, hvars>>

\* html = await page.content() (line 53 / lines 66-70): the snapshot holds
\* what the page holds at this moment
Content ==
    /\ rpc = "content"
    /\ html' = [taken |-> TRUE, markers |-> page_dom]
    /\ events' = events \cup {"snapshot"}
    /\ rpc' = "close"
    /\ UNCHANGED <<renderer, pending, pw, browser, page_dom, renders, parsed, results>>
    /\ UNCHANGED evars
    /\ UNCHANGED <<bvars, hvars>>

\* await browser.close() (line 54 / line 71)
CloseBrowser ==
    /\ rpc = "close"
    /\ browser' = "closed"
    /\ events' = events \cup {"browser_close"}
    /\ rpc' = "exit_ok"
    /\ UNCHANGED <<renderer, pending, pw, page_dom, html, renders, parsed, results>>
    /\ UNCHANGED evars
    /\ UNCHANGED <<bvars, hvars>>

\* variant: Playwright started without its context manager; leaving the
\* function stops nothing
PlaywrightLeaveOpen ==
    /\ rpc \in {"exit_ok", "exit_exc"}
    /\ rpc' = IF rpc = "exit_ok" THEN "returned" ELSE "raised"
    /\ renders' = Append(renders,
          [url |-> Head(pending),
           result |-> IF rpc = "exit_ok" THEN "returned" ELSE "raised",
           html |-> IF rpc = "exit_ok" THEN html ELSE NoHtml])
    /\ UNCHANGED <<renderer, pending, pw, browser, page_dom, html, events, parsed, results>>
    /\ UNCHANGED evars
    /\ UNCHANGED <<bvars, hvars>>

\* the `async with` block is left (line 42 / line 57), by `return html` or by
\* an exception on its way out: Playwright is stopped, which ends the driver
\* and with it a browser that is still open
PlaywrightExit ==
    /\ rpc \in {"exit_ok", "exit_exc"}
    /\ pw' = "stopped"
    /\ browser' = IF browser = "open" THEN "closed" ELSE browser
    /\ events' = IF browser = "open" THEN events \cup {"torn_down"} ELSE events
    /\ rpc' = IF rpc = "exit_ok" THEN "returned" ELSE "raised"
    /\ renders' = Append(renders,
          [url |-> Head(pending),
           result |-> IF rpc = "exit_ok" THEN "returned" ELSE "raised",
           html |-> IF rpc = "exit_ok" THEN html ELSE NoHtml])
    /\ UNCHANGED <<renderer, pending, page_dom, html, parsed, results>>
    /\ UNCHANGED evars
    /\ UNCHANGED <<bvars, hvars>>

\* variant: scrape_page goes on with whatever it has when the render raised
ScrapePageRegardless ==
    /\ renderer.op = "fetch"
    /\ rpc \in {"returned", "raised"}
    /\ parsed' = Append(parsed, [url |-> Head(pending), html |-> html])
    /\ results' = Append(results, [url |-> Head(pending), html |-> html])
    /\ pending' = Tail(pending)
    /\ rpc' = "idle"
    /\ UNCHANGED <<renderer, pw, browser, page_dom, html, events, renders>>
    /\ UNCHANGED evars
    /\ UNCHANGED <<bvars, hvars>>

\* DOCAPIscraper.py lines 187-198 and batch_scraper.py line 86: the returned
\* html is parsed, title, links and examples are extracted, and the
\* PageExtraction is appended to results
ScrapePage ==
    /\ renderer.op = "fetch"
    /\ rpc = "returned"
    /\ parsed' = Append(parsed, [url |-> Head(pending), html |-> html])
    /\ results' = Append(results, [url |-> Head(pending), html |-> html])
    /\ pending' = Tail(pending)
    /\ rpc' = "idle"
    /\ UNCHANGED <<renderer, pw, browser, page_dom, html, events, renders>>
    /\ UNCHANGED evars
    /\ UNCHANGED <<bvars, hvars>>

\* scrapApi.py lines 72-82: the RenderedPage is returned to the caller
RenderToMemory ==
    /\ renderer.op = "render"
    /\ rpc = "returned"
    /\ results' = Append(results, [url |-> Head(pending), html |-> html])
    /\ pending' = Tail(pending)
    /\ rpc' = "idle"
    /\ UNCHANGED <<renderer, pw, browser, page_dom, html, events, renders, parsed>>
    /\ UNCHANGED evars
    /\ UNCHANGED <<bvars, hvars>>

\* the exception of the render leaves scrape_page and the loop of
\* scrape_links_async (or render_to_memory): nothing catches it
Propagate ==
    /\ rpc = "raised"
    /\ rpc' = "aborted"
    /\ UNCHANGED <<renderer, pending, pw, browser, page_dom, html, events, renders, parsed, results>>
    /\ UNCHANGED evars
    /\ UNCHANGED <<bvars, hvars>>

\* batch_scraper.py line 87: the loop is over, results is returned
BatchReturn ==
    /\ rpc = "idle"
    /\ pending = <<>>
    /\ rpc' = "done"
    /\ UNCHANGED <<renderer, pending, pw, browser, page_dom, html, events, renders, parsed, results>>
    /\ UNCHANGED evars
    /\ UNCHANGED <<bvars, hvars>>

NextRender ==
    \/ StartRender \/ PlaywrightEnter \/ Launch \/ NewPage \/ Goto \/ Hydrate
    \/ WaitSelector \/ WaitFallback \/ WaitLoadState \/ WaitDelay
    \/ Content \/ CloseBrowser \/ PlaywrightExit
    \/ ScrapePage \/ RenderToMemory \/ Propagate \/ BatchReturn

SpecRender == InitRender /\ [][NextRender]_vars

NextExamples == ParseExamplePage \/ ExtractEnter \/ ExtractStep \/ ExtractReturn

SpecExamples == InitExamples /\ [][NextExamples]_vars

-----------------------------------------------------------------------------
(* _closest_section_heading as a process: one step per pass through the    *)
(* body of `while curr:`, from any element of the page                     *)

MaxWalkNodes == 4

\* headings, containers and code blocks; the walk looks at tags only
WalkKinds ==
    { Elem("h2", <<"A">>), Elem("h3", <<"C">>), Elem("div", <<>>),
      Elem("pre", <<>>), Elem("code", <<"x">>) }

WalkContainers == {"div", "pre"}

\* Tag.parent; the BeautifulSoup object has none
ParentOf(d, n) == IF n = 0 THEN NoneNode ELSE d[n].parent

InitSearch ==
    /\ doc = <<>>
    /\ base_url = <<>>
    /\ phase = "parse"
    /\ idx = 0
    /\ examples = <<>>
    /\ links = <<>>
    /\ seen = {}
    /\ texts = <<>>
    /\ desc = <<>>
    /\ NoRender
    /\ NoBatch
    /\ NoSearch

\* line 187, for a page of headings, containers and code blocks
ParseWalkPage ==
    /\ ParseElement(WalkKinds, WalkContainers, MaxWalkNodes)
    /\ UNCHANGED <<base_url, phase, idx, examples, links, seen, texts, desc>>
    /\ UNCHANGED <<rvars, bvars, hvars>>

\* line 80: the search is entered with an element of the page, curr = node
SearchEnter ==
    /\ phase = "parse"
    /\ \E n \in Nodes(doc) :
          /\ walk_node' = n
          /\ walk_curr' = n
    /\ phase' = "search"
    /\ UNCHANGED <<doc, base_url, idx, examples, links, seen, texts, desc>>
    /\ UNCHANGED <<rvars, bvars>>

\* variant: an exhausted walk goes on two levels up when there are two
SearchStepSkipsLevel ==
    /\ phase = "search"
    /\ walk_curr # NoneNode
    /\ LET prev == FindPreviousSibling(doc, walk_curr)
           up == IF ParentOf(doc, ParentOf(doc, walk_node)) # NoneNode
                 THEN ParentOf(doc, ParentOf(doc, walk_node))
                 ELSE ParentOf(doc, walk_node)
       IN  IF prev # NoneNode /\ TagOf(doc, prev) \in HeadingTags
           THEN /\ walk_curr' = prev
                /\ phase' = "found"
                /\ UNCHANGED walk_node
           ELSE IF prev = NoneNode /\ ParentOf(doc, walk_node) # NoneNode
           THEN /\ walk_node' = up
                /\ walk_curr' = up
                /\ UNCHANGED phase
           ELSE /\ walk_curr' = prev
                /\ UNCHANGED <<walk_node, phase>>
    /\ idx' = idx + 1
    /\ UNCHANGED <<doc, base_url, examples, links, seen, texts, desc>>
    /\ UNCHANGED <<rvars, bvars>>

\* lines 81-89: one pass through the loop body: the previous sibling is a
\* heading and is returned, or the walk is exhausted and goes on from the
\* parent, or it goes on from the previous sibling (None at the root)
SearchStep ==
    /\ phase = "search"
    /\ walk_curr # NoneNode
    /\ LET prev == FindPreviousSibling(doc, walk_curr)
       IN  IF prev # NoneNode /\ TagOf(doc, prev) \in HeadingTags
           THEN /\ walk_curr' = prev
                /\ phase' = "found"
                /\ UNCHANGED walk_node
           ELSE IF prev = NoneNode /\ ParentOf(doc, walk_node) # NoneNode
           THEN /\ walk_node' = ParentOf(doc, walk_node)
                /\ walk_curr' = ParentOf(doc, walk_node)
                /\ UNCHANGED phase
           ELSE /\ walk_curr' = prev
                /\ UNCHANGED <<walk_node, phase>>
    /\ idx' = idx + 1
    /\ UNCHANGED <<doc, base_url, examples, links, seen, texts, desc>>
    /\ UNCHANGED <<rvars, bvars>>

\* line 90: `while curr:` is left, None is returned
SearchReturnNone ==
    /\ phase = "search"
    /\ walk_curr = NoneNode
    /\ phase' = "none"
    /\ UNCHANGED <<doc, base_url, idx, examples, links, seen, texts, desc>>
    /\ UNCHANGED <<rvars, bvars, hvars>>

NextSearch == ParseWalkPage \/ SearchEnter \/ SearchStep \/ SearchReturnNone

\* the interpreter keeps running the loop: a step that can be taken is taken
SpecSearch == InitSearch /\ [][NextSearch]_vars /\ WF_vars(NextSearch)

-----------------------------------------------------------------------------
(* batch_scraper.py: the link input and its normalization.  A raw link is  *)
(* a string, a dict with "href" / "url", or another JSON value (str(raw)   *)
(* is then its text).                                                      *)

Str(s) == [type |-> "str", text |-> s, href |-> Missing, url |-> Missing]
Dict(h, u) == [type |-> "dict", text |-> <<>>, href |-> h, url |-> u]
Other(s) == [type |-> "other", text |-> s, href |-> Missing, url |-> Missing]

\* truth value of a string or None
Truthy(v) == v # Missing /\ v # <<>>

\* base_url.rstrip("/")
RECURSIVE RStripSlash(_)
RStripSlash(s) ==
    IF s # <<>> /\ s[Len(s)] \in {"/", "//"}
    THEN RStripSlash(SubSeq(s, 1, Len(s) - 1)) ELSE s

\* _normalize_link (lines 19-50); base <<>> is a base_url of None or ""
NormalizeLink(raw, base) ==
    LET href == IF raw.type = "dict"
                THEN (IF Truthy(raw.href) THEN raw.href ELSE raw.url)
                ELSE raw.text
        cleaned == Strip(href)
        parsed_url == UrlSplit(cleaned, "")
    IN  IF href = Missing THEN Missing
        ELSE IF cleaned = <<>> THEN Missing
        ELSE IF parsed_url.scheme # "" THEN cleaned
        ELSE IF Head(cleaned) = "//" THEN <<"https:">> \o cleaned
        ELSE IF Head(cleaned) = "/" /\ Truthy(base) THEN UrlJoin(base, cleaned)
        ELSE IF Truthy(base) /\ parsed_url.netloc = "" THEN UrlJoin(RStripSlash(base), cleaned)
        ELSE Missing

\* [_normalize_link(link, base_url) for link in links] and the filter
\* [link for link in normalized if link]
NormalizeAll(raws, base) ==
    SelectSeq([i \in 1..Len(raws) |-> NormalizeLink(raws[i], base)], Truthy)

\* lines 63-67: what _load_links takes as its list, <<>> for the [] defaults
LinksOfPayload(p) ==
    IF p.top = "list" THEN p.items
    ELSE IF p.top = "object" /\ p.member = "list" THEN p.items
    ELSE <<>>

\* _load_links raises: the file cannot be read or parsed (line 63), "links"
\* is not a list (lines 69-70), or no link is left (lines 75-77)
LoadLinksRaises(p, base) ==
    \/ p.top \in {"missing", "invalid"}
    \/ p.top = "object" /\ p.member \notin {"list", "absent"}
    \/ NormalizeAll(LinksOfPayload(p), base) = <<>>

MaxBatchLinks == 2

RawLinks ==
    { Str(<<>>), Str(<<" ">>), Str(<<"b">>), Str(<<"/", "b">>),
      Str(<<"//", "y.com", "/", "p">>),
      Str(<<" ", "https:", "//", "x.com", "/", "a", "\n">>),
      Dict(<<"/", "b">>, Missing), Dict(<<>>, <<"https:", "//", "x.com", "/", "c">>),
      Dict(Missing, Missing), Dict(<<" ">>, <<"b">>),
      Other(<<"None">>) }

RawLists == UNION { [1..n -> RawLinks] : n \in 0..MaxBatchLinks }

\* what the JSON file may hold: a list, an object with or without "links",
\* another JSON value, text that is not JSON, or nothing (no such file)
JsonPayloads ==
    {[top |-> "list", member |-> "absent", items |-> l] : l \in RawLists}
    \cup {[top |-> "object", member |-> "list", items |-> l] : l \in RawLists}
    \cup {[top |-> "object", member |-> m, items |-> <<>>] : m \in {"absent", "string", "null", "object"}}
    \cup {[top |-> t, member |-> "absent", items |-> <<>>] : t \in {"scalar", "invalid", "missing"}}

\* what scrape_links_to_memory is handed by a caller: a list of raw links
MemoryPayloads == {[top |-> "list", member |-> "absent", items |-> l] : l \in RawLists}

BatchBases == { <<>>, <<"https:", "//", "x.com", "/", "docs", "/">> }

InitBatch ==
    /\ doc = <<>>
    /\ base_url = <<>>
    /\ phase = "off"
    /\ idx = 0
    /\ examples = <<>>
    /\ links = <<>>
    /\ seen = {}
    /\ texts = <<>>
    /\ desc = <<>>
    /\ NoRender
    /\ NoSearch
    /\ \E b \in BatchBases :
          \/ /\ call = [entry |-> "json", base_url |-> b]
             /\ payload \in JsonPayloads
          \/ /\ call = [entry |-> "memory", base_url |-> b]
             /\ payload \in MemoryPayloads
    /\ bpc = "called"
    /\ usable = <<>>
    /\ written = NoFile

\* scrape_links_to_json line 125: _load_links returns the cleaned list or
\* raises, and its exception leaves scrape_links_to_json
LoadLinks ==
    /\ call.entry = "json"
    /\ bpc = "called"
    /\ IF LoadLinksRaises(payload, call.base_url)
       THEN /\ bpc' = "raised"
            /\ UNCHANGED usable
       ELSE /\ usable' = NormalizeAll(LinksOfPayload(payload), call.base_url)
            /\ bpc' = "loaded"
    /\ UNCHANGED <<payload, call, written>>
    /\ UNCHANGED <<evars, rvars, hvars>>

\* the links scrape_links_to_memory is called with
LinksArgument ==
    IF call.entry = "json" THEN [i \in 1..Len(usable) |-> Str(usable[i])] ELSE payload.items

\* variant: the batch goes on with whatever the normalization left
NormalizeLinksUnchecked ==
    /\ \/ call.entry = "json" /\ bpc = "loaded"
       \/ call.entry = "memory" /\ bpc = "called"
    /\ usable' = NormalizeAll(LinksArgument, call.base_url)
    /\ bpc' = "normalized"
    /\ UNCHANGED <<payload, call, written>>
    /\ UNCHANGED <<evars, rvars, hvars>>

\* scrape_links_to_memory lines 99-103: the links are normalized, and
\* ValueError is raised when none is usable
NormalizeLinks ==
    /\ \/ call.entry = "json" /\ bpc = "loaded"
       \/ call.entry = "memory" /\ bpc = "called"
    /\ usable' = NormalizeAll(LinksArgument, call.base_url)
    /\ bpc' = IF NormalizeAll(LinksArgument, call.base_url) = <<>> THEN "raised" ELSE "normalized"
    /\ UNCHANGED <<payload, call, written>>
    /\ UNCHANGED <<evars, rvars, hvars>>

\* line 105 and lines 82-84: asyncio.run(scrape_links_async(usable))
RunBatch ==
    /\ bpc = "normalized"
    /\ bpc' = "running"
    /\ renderer' = [op |-> "fetch", post_render_delay_ms |-> 0]
    /\ pending' = usable
    /\ rpc' = "idle"
    /\ UNCHANGED <<pw, browser, page_dom, html, events, renders, parsed, results>>
    /\ UNCHANGED <<payload, call, usable, written>>
    /\ UNCHANGED <<evars, hvars>>

\* lines 85-86: scraper.scrape_page(url) as one step: the page is rendered
\* and its PageExtraction appended, or the render raises
ScrapeLink ==
    /\ bpc = "running"
    /\ rpc = "idle"
    /\ pending # <<>>
    /\ \/ /\ renders' = Append(renders, [url |-> Head(pending), result |-> "returned",
                                         html |-> [taken |-> TRUE, markers |-> {}]])
          /\ parsed' = Append(parsed, [url |-> Head(pending), html |-> [taken |-> TRUE, markers |-> {}]])
          /\ results' = Append(results, [url |-> Head(pending), html |-> [taken |-> TRUE, markers |-> {}]])
          /\ pending' = Tail(pending)
          /\ UNCHANGED rpc
       \/ /\ renders' = Append(renders, [url |-> Head(pending), result |-> "raised", html |-> NoHtml])
          /\ rpc' = "raised"
          /\ UNCHANGED <<pending, parsed, results>>
    /\ UNCHANGED <<renderer, pw, browser, page_dom, html, events>>
    /\ UNCHANGED <<evars, bvars, hvars>>

\* lines 106-113: the pages are turned into dictionaries; scrape_links_to_memory
\* returns them
BuildPages ==
    /\ bpc = "running"
    /\ rpc = "done"
    /\ bpc' = IF call.entry = "memory" THEN "returned" ELSE "built"
    /\ UNCHANGED <<payload, call, usable, written>>
    /\ UNCHANGED <<evars, rvars, hvars>>

\* the exception of a render leaves asyncio.run and the batch call
BatchFailed ==
    /\ bpc = "running"
    /\ rpc = "aborted"
    /\ bpc' = "raised"
    /\ UNCHANGED <<payload, call, usable, written>>
    /\ UNCHANGED <<evars, rvars, hvars>>

\* scrape_links_to_json lines 128-133: the output file is written
WriteOutput ==
    /\ bpc = "built"
    /\ written' = [exists |-> TRUE, pages |-> [i \in 1..Len(results) |-> results[i].url]]
    /\ bpc' = "returned"
    /\ UNCHANGED <<payload, call, usable>>
    /\ UNCHANGED <<evars, rvars, hvars>>

NextBatch ==
    \/ LoadLinks \/ NormalizeLinks \/ RunBatch \/ ScrapeLink \/ Propagate
    \/ BatchReturn \/ BuildPages \/ BatchFailed \/ WriteOutput

SpecBatch == InitBatch /\ [][NextBatch]_vars

-----------------------------------------------------------------------------
(* Vocabulary of the properties, stated on the document alone              *)

\* a code block: a code element with a pre above it
CodeBlocks(d) ==
    {n \in Nodes(d) : d[n].tag = "code" /\ \E a \in Ancestors(d, n) \ {0} : d[a].tag = "pre"}

\* the text below n holds a token that is not whitespace
HasInk(d, n) ==
    \E m \in {n} \cup Descendants(d, n) :
        \E i \in 1..Len(d[m].text) : d[m].text[i] \notin Whitespace

NonBlankBlocks(d) == {n \in CodeBlocks(d) : HasInk(d, n)}

\* the j-th non-blank code block in document order
NthNonBlank(d, j) ==
    CHOOSE n \in NonBlankBlocks(d) :
        Cardinality({m \in NonBlankBlocks(d) : m < n}) = j - 1

\* the unit of positional reference of a code block
Wrapper(d, n) ==
    IF d[n].parent \in Nodes(d) /\ d[d[n].parent].tag = "pre" THEN d[n].parent ELSE n

\* the h2/h3 that precede, as siblings, the node b or one of its ancestors
HeadingsBefore(d, b) ==
    {h \in Nodes(d) :
        /\ d[h].tag \in {"h2", "h3"}
        /\ \E a \in ({b} \cup Ancestors(d, b)) \ {0} :
              d[h].parent = d[a].parent /\ h < a}

\* the nearest of them: the last one in document order
NearestHeading(d, b) ==
    CHOOSE h \in HeadingsBefore(d, b) : \A g \in HeadingsBefore(d, b) : g <= h

FirstH1(d) == CHOOSE h \in Nodes(d) : d[h].tag = "h1" /\ \A g \in 1..(h - 1) : d[g].tag # "h1"

HasH1(d) == \E h \in Nodes(d) : d[h].tag = "h1"

C2_TitleAmended ==
    \A j \in 1..Len(examples) :
        j <= Cardinality(NonBlankBlocks(doc)) =>
            LET b == Wrapper(doc, NthNonBlank(doc, j))
            IN  examples[j].title =
                    IF HeadingsBefore(doc, b) # {}
                    THEN CleanText(GetTextStrip(doc, NearestHeading(doc, b)))
                    ELSE IF HasH1(doc) /\ GetTextStrip(doc, FirstH1(doc)) # <<>>
                         THEN GetTextStrip(doc, FirstH1(doc))
                         ELSE <<"Example">>

\* C2 as stated: without a heading the title is the text of the first h1
\* whenever there is an h1, and "Example" only when there is none.
C2_TitleAsStated ==
    \A j \in 1..Len(examples) :
        j <= Cardinality(NonBlankBlocks(doc)) =>
            LET b == Wrapper(doc, NthNonBlank(doc, j))
            IN  examples[j].title =
                    IF HeadingsBefore(doc, b) # {}
                    THEN CleanText(GetTextStrip(doc, NearestHeading(doc, b)))
                    ELSE IF HasH1(doc)
                         THEN GetTextStrip(doc, FirstH1(doc))
                         ELSE <<"Example">>

\* an example whose heading is a sibling of an ancestor of its block, and
\* whose text needed normalizing
C2_Witness ==
    \E j \in 1..Len(examples) :
        /\ j <= Cardinality(NonBlankBlocks(doc))
        /\ LET b == Wrapper(doc, NthNonBlank(doc, j))
           IN  /\ HeadingsBefore(doc, b) # {}
               /\ doc[NearestHeading(doc, b)].parent # doc[b].parent
               /\ examples[j].title = <<"A", " ", "B">>

-----------------------------------------------------------------------------
(* Descriptions                                                            *)

\* the p/ul/ol that lie between the heading h and the block b: they follow h
\* as siblings, or are nested in a div/section/article that follows h as a
\* sibling, and they end before b starts
ProseBetween(d, h, b) ==
    {m \in Nodes(d) :
        /\ d[m].tag \in {"p", "ul", "ol"}
        /\ h < m /\ m < b
        /\ b \notin Descendants(d, m)
        /\ \/ d[m].parent = d[h].parent
           \/ \E w \in Ancestors(d, m) \ {0} :
                 /\ d[w].tag \in {"div", "section", "article"}
                 /\ d[w].parent = d[h].parent
                 /\ h < w}

NormalizedTexts(d, ns) == [i \in 1..Len(ns) |-> CleanText(GetTextStrip(d, ns[i]))]

Tokens(s) == {s[i] : i \in 1..Len(s)}

\* C3 as stated: when a heading was found, the description is made of the
\* normalized text of every p/ul/ol between the heading and the code block,
\* in document order, those inside a wrapper that holds the code block
\* included (blocks joined by a blank line, empty and repeated ones dropped).
C3_DescriptionAsStated ==
    \A j \in 1..Len(examples) :
        j <= Cardinality(NonBlankBlocks(doc)) =>
            LET b == Wrapper(doc, NthNonBlank(doc, j))
            IN  HeadingsBefore(doc, b) # {} =>
                    examples[j].description =
                        JoinDescription(NormalizedTexts(doc,
                            InOrder(ProseBetween(doc, NearestHeading(doc, b), b))))

\* C4 as stated: no collected node holds or follows a code block's text: a
\* node collected inside a wrapper has no code block between the wrapper's
\* start and itself, every collected node ends before the example's own
\* block starts, and no description holds a token of a code text.
C4_NothingAfterCodeAsStated ==
    \A j \in 1..Len(examples) :
        j <= Cardinality(NonBlankBlocks(doc)) =>
            LET b == Wrapper(doc, NthNonBlank(doc, j))
                ns == CollectedNodes(doc, ClosestSectionHeading(doc, b), b)
            IN  /\ \A i \in 1..Len(ns) :
                      /\ \A m \in {ns[i]} \cup Descendants(doc, ns[i]) : m < b
                      /\ \A w \in Ancestors(doc, ns[i]) \ {0} :
                            (doc[w].tag \in {"div", "section", "article"} /\ b \notin Descendants(doc, w))
                              => ~ \E c \in CodeBlocks(doc) : w < c /\ c < ns[i]
                /\ \A c \in CodeBlocks(doc) :
                      Tokens(GetText(doc, c)) \cap Tokens(examples[j].description) = {}

\* the blocks of a description: the maximal runs of tokens other than "\n"
RECURSIVE BlocksFrom(_, _)
BlocksFrom(s, block) ==
    IF s = <<>> THEN (IF block = <<>> THEN <<>> ELSE <<block>>)
    ELSE IF Head(s) = "\n"
         THEN (IF block = <<>> THEN <<>> ELSE <<block>>) \o BlocksFrom(Tail(s), <<>>)
         ELSE BlocksFrom(Tail(s), Append(block, Head(s)))

BlocksOf(s) == BlocksFrom(s, <<>>)

\* C5 as stated: the description never holds two identical blocks next to
\* each other, whatever the collected blocks were.
C5_NoRepeatAsStated ==
    phase = "done" =>
        \A i \in 1..(Len(BlocksOf(desc)) - 1) : BlocksOf(desc)[i] # BlocksOf(desc)[i + 1]

-----------------------------------------------------------------------------
(* Links                                                                   *)

\* the anchors _absolute_links may take a URL from
Navigable(d) ==
    {a \in Nodes(d) :
        /\ d[a].tag = "a"
        /\ d[a].href # NoHref
        /\ d[a].href # <<>>
        /\ d[a].href[1] \notin {"#", "mailto:", "tel:"}}

\* what an anchor resolves to: the part of the joined URL before its "#"
ResolvesTo(d, base, a) == Before(UrlJoin(base, d[a].href), "#")

\* the navigable anchors that are the first to resolve to their URL
FirstOfItsUrl(d, base) ==
    {a \in Navigable(d) :
        \A a2 \in Navigable(d) : a2 < a => ResolvesTo(d, base, a2) # ResolvesTo(d, base, a)}

\* C6: the links returned hold no URL twice and no fragment, and they are the
\* URLs of the navigable anchors (href not empty, not starting with "#",
\* "mailto:" or "tel:"), each at the place of the first anchor resolving to it.
C6_UniqueDefraggedFirstSeen ==
    /\ \A i, j \in 1..Len(links) : i # j => links[i] # links[j]
    /\ \A i \in 1..Len(links) : "#" \notin Tokens(links[i])
    /\ phase = "done" =>
          LET firsts == InOrder(FirstOfItsUrl(doc, base_url))
          IN  links = [i \in 1..Len(firsts) |-> ResolvesTo(doc, base_url, firsts[i])]

\* two hrefs that differ by their fragment alone gave one entry, and a
\* skipped anchor came before them
C6_Witness ==
    /\ phase = "done"
    /\ Len(links) >= 1
    /\ \E a, a2 \in Navigable(doc) :
          /\ a < a2
          /\ doc[a].href # doc[a2].href
          /\ Before(doc[a].href, "#") = Before(doc[a2].href, "#")
    /\ \E a \in Nodes(doc) : doc[a].tag = "a" /\ doc[a].href = <<"#", "f">> /\ a = 1

-----------------------------------------------------------------------------
(* Sidebar links                                                           *)

\* the sidebar containers of the document: the div elements of class os-padding
Sidebars(d) ==
    {n \in Nodes(d) : d[n].tag = "div" /\ <<"os-padding">> \in {d[n].cls[i] : i \in 1..Len(d[n].cls)}}

\* the anchors with an href attribute inside the first sidebar container
AnchorsInSidebar(d) ==
    {a \in Nodes(d) :
        /\ d[a].tag = "a" /\ d[a].href # NoHref
        /\ \E c \in Sidebars(d) : (\A c2 \in Sidebars(d) : c <= c2) /\ c \in Ancestors(d, a)}

\* the visible text of an anchor: its strings, each trimmed, put together
VisibleText(d, a) == GetTextStripSep(d, a, <<>>)

\* the anchors that are the first, among the set A, with their (key, text) pair
FirstOfItsPair(d, A, Key(_)) ==
    {a \in A : \A a2 \in A : a2 < a =>
        <<Key(a2), VisibleText(d, a2)>> # <<Key(a), VisibleText(d, a)>>}

\* C7 as stated: one link per distinct (href, visible text) pair among the
\* container's anchors with a non-empty href, in order of first occurrence,
\* with the href as found in the document; the empty list without a container.
C7_SidebarAsStated ==
    phase = "done" =>
        LET AsFound(a) == doc[a].href
            firsts == InOrder(FirstOfItsPair(doc,
                          {a \in AnchorsInSidebar(doc) : AsFound(a) # <<>>}, AsFound))
        IN  links = [i \in 1..Len(firsts) |->
                        [title |-> VisibleText(doc, firsts[i]), href |-> AsFound(firsts[i])]]

\* C7 as amended: the same with every href trimmed of surrounding whitespace
\* first: anchors whose trimmed href is empty are left out, pairs are told
\* apart by the trimmed href, and the trimmed href is what is returned (no
\* base-URL resolution); no run ends by raising.
C7_SidebarAmended ==
    /\ phase # "raised"
    /\ phase = "done" =>
        LET Trimmed(a) == Strip(doc[a].href)
            firsts == InOrder(FirstOfItsPair(doc,
                          {a \in AnchorsInSidebar(doc) : Trimmed(a) # <<>>}, Trimmed))
        IN  links = [i \in 1..Len(firsts) |->
                        [title |-> VisibleText(doc, firsts[i]), href |-> Trimmed(firsts[i])]]

\* a sidebar whose anchors repeat a pair, one of them with a padded href, next
\* to an anchor outside of it
C7_Witness ==
    /\ phase = "done"
    /\ Sidebars(doc) # {}
    /\ Len(links) >= 1
    /\ Len(links) < Cardinality({a \in AnchorsInSidebar(doc) : Strip(doc[a].href) # <<>>})
    /\ \E a \in AnchorsInSidebar(doc) : doc[a].href # Strip(doc[a].href)
    /\ \E a \in Nodes(doc) : doc[a].tag = "a" /\ doc[a].href # NoHref /\ a \notin AnchorsInSidebar(doc)

-----------------------------------------------------------------------------
(* Renders and the batch                                                   *)

\* the render that was started last has ended, one way or the other
RenderEnded == rpc \in {"returned", "raised", "idle", "aborted", "done"}

C9_SnapshotAsStated ==
    renderer.op = "fetch" =>
        /\ "snapshot" \in events =>
              events \cap {"selector_found", "fallback_found", "fallback_timeout"} # {}
        /\ (rpc \in {"returned", "raised"}
            /\ events \cap {"selector_found", "fallback_found", "fallback_timeout"} # {})
              => (rpc = "returned" /\ html # NoHtml)

\* C9 as amended: no snapshot is taken before a wait has found its marker
\* (the code block, or the main container once the first wait timed out);
\* a render that found a marker ends by returning the snapshot, and a render
\* whose fallback wait elapsed ends by raising, without a snapshot.
C9_SnapshotAmended ==
    renderer.op = "fetch" =>
        /\ "snapshot" \in events =>
              events \cap {"selector_found", "fallback_found"} # {}
        /\ (rpc \in {"returned", "raised"}
            /\ events \cap {"selector_found", "fallback_found"} # {})
              => (rpc = "returned" /\ html # NoHtml)
        /\ (rpc \in {"returned", "raised"} /\ "fallback_timeout" \in events)
              => (rpc = "raised" /\ html = NoHtml)

\* a render that returned thanks to the fallback wait
C9_Witness ==
    /\ renderer.op = "fetch"
    /\ rpc = "returned"
    /\ "selector_timeout" \in events
    /\ "fallback_found" \in events
    /\ html # NoHtml

\* C10: scrape_page parses only snapshots that a render returned: every
\* parsed document is the snapshot of the render of the same rank, which
\* returned; a render that raised has no parsed document and no
\* PageExtraction, neither have the urls after it.
C10_NoExtractionWithoutRender ==
    renderer.op = "fetch" =>
        /\ Len(results) = Len(parsed)
        /\ \A k \in 1..Len(parsed) :
              /\ k <= Len(renders)
              /\ renders[k].result = "returned"
              /\ parsed[k] = [url |-> renders[k].url, html |-> renders[k].html]
              /\ parsed[k].html # NoHtml
              /\ results[k].url = renders[k].url
        /\ \A k \in 1..Len(renders) :
              renders[k].result = "raised" => Len(parsed) < k
        /\ rpc = "aborted" => Len(parsed) = Len(renders) - 1

\* a batch aborted by the timeout of its second page, the first one scraped
C10_Witness ==
    /\ renderer.op = "fetch"
    /\ rpc = "aborted"
    /\ Len(renders) = 2
    /\ Len(parsed) = 1
    /\ Len(results) = 1
    /\ events \cap {"goto_timeout", "fallback_timeout"} # {}

-----------------------------------------------------------------------------
(* The link input of a batch                                               *)

\* the text a raw link is read from: "href" of a dict when it is not empty,
\* else its "url"; the text of any other value
LinkText(raw) ==
    IF raw.type # "dict" THEN raw.text
    ELSE IF raw.href # Missing /\ raw.href # <<>> THEN raw.href ELSE raw.url

\* a raw link is usable: it has text that is not blank, and that text is
\* absolute or protocol-relative, or there is a base url to resolve it with
UsableLink(raw, base) ==
    /\ LinkText(raw) # Missing
    /\ \E i \in 1..Len(LinkText(raw)) :
          /\ LinkText(raw)[i] \notin Whitespace
          /\ \A k \in 1..(i - 1) : LinkText(raw)[k] \in Whitespace
          /\ \/ LinkText(raw)[i] \in SchemeTokens
             \/ LinkText(raw)[i] = "//"
             \/ base # <<>>

\* the JSON file holds a list, or an object whose "links" is a list
WellFormedInput ==
    \/ call.entry = "memory"
    \/ payload.top = "list"
    \/ payload.top = "object" /\ payload.member = "list"

ZeroUsableLinks ==
    \A i \in 1..Len(payload.items) : ~ UsableLink(payload.items[i], call.base_url)

\* C11: while a batch call runs on a link input that is malformed (the JSON
\* is neither a list nor an object whose "links" is a list) or that holds no
\* usable link, the call is at its start or has raised: no page was rendered,
\* the batch loop was never entered, and no output file was written.
C11_BadInputRaisesBeforeBatch ==
    (call.entry # "none" /\ (~ WellFormedInput \/ ZeroUsableLinks)) =>
        /\ bpc \in {"called", "raised"}
        /\ rpc = "off"
        /\ pending = <<>>
        /\ renders = <<>>
        /\ results = <<>>
        /\ written = NoFile

\* scrape_links_to_json has raised on an object whose "links" list holds
\* links, none of them usable without a base url
C11_Witness ==
    /\ call.entry = "json"
    /\ payload.top = "object"
    /\ payload.member = "list"
    /\ Len(payload.items) = 2
    /\ \E i \in 1..2 : payload.items[i].type = "dict" /\ payload.items[i].href = <<"/", "b">>
    /\ ZeroUsableLinks
    /\ bpc = "raised"
    /\ renders = <<>>
    /\ written = NoFile

-----------------------------------------------------------------------------
(* The heading search                                                      *)

\* the backward walk over the siblings of walk_node has no sibling left
WalkExhausted ==
    /\ phase = "search"
    /\ walk_curr # NoneNode
    /\ FindPreviousSibling(doc, walk_curr) = NoneNode

\* C12: the heading search ends on every page and from every start node,
\* within one pass per element plus one for the document; each time the
\* backward sibling walk is exhausted below the document it goes on from
\* the parent, exactly one level up, and when it is exhausted at the
\* document it leaves the loop and returns None.
C12_SearchTerminates ==
    /\ [](idx <= Len(doc) + 1)
    /\ [][WalkExhausted /\ walk_node # 0 =>
             /\ walk_node' = doc[walk_node].parent
             /\ walk_curr' = walk_node'
             /\ phase' = "search"]_vars
    /\ [][WalkExhausted /\ walk_node = 0 => walk_curr' = NoneNode /\ phase' = "search"]_vars
    /\ [][phase = "search" /\ walk_curr = NoneNode => phase' = "none"]_vars
    /\ <>(phase \in {"found", "none"})

\* a search that started two levels below the document, passed a sibling
\* that is no heading, went up level by level and returned None
C12_Witness ==
    /\ phase = "none"
    /\ walk_node = 0
    /\ idx = 4
    /\ Len(doc) = 3
    /\ doc[3].parent = 2
    /\ doc[2].parent = 0
    /\ doc[1].parent = 0

====
